---- MODULE Spec2Model ----
(***************************************************************************)
(* boxpop: image reference parsing, authentication selection, output       *)
(* directory resolution (src/src/lib.rs), command line entry               *)
(* (src/src/main.rs) and the concurrent layer download of the `extract`    *)
(* subcommand (src/src/cmd/extract.rs).                                    *)
(*                                                                         *)
(* Rust strings that are parsed or rewritten are sequences of one-         *)
(* character strings, so that split_once, rsplit_once, replace and the     *)
(* Display implementation are computed character by character.             *)
(***************************************************************************)
EXTENDS Integers, Sequences, FiniteSets, TLC

(* ------------------------------ bounds --------------------------------- *)

\* longest image reference string given to ImageRef::from_str (LibSpec)
MaxLen == 5
\* largest number of layers in the manifest the registry returns
MaxLayers == 2
\* largest number of chunks a blob stream yields before it ends
MaxChunks == 2

(* --------------------------- Option<T> ---------------------------------- *)

None == << >>
Some(x) == << x >>
IsSome(o) == Len(o) = 1
Unwrap(o) == o[1]

(* ------------------------------ strings -------------------------------- *)

Chars == {"a", "/", ":", "@"}

RECURSIVE StringsOfLen(_)
StringsOfLen(n) ==
    IF n = 0 THEN { << >> }
    ELSE { Append(s, c) : s \in StringsOfLen(n - 1), c \in Chars }

Strings == UNION { StringsOfLen(n) : n \in 0..MaxLen }

DockerIo == << "d", "o", "c", "k", "e", "r", ".", "i", "o" >>
Latest == << "l", "a", "t", "e", "s", "t" >>

Positions(s, c) == { i \in 1..Len(s) : s[i] = c }
MinOf(S) == CHOOSE i \in S : \A j \in S : i <= j
MaxOf(S) == CHOOSE i \in S : \A j \in S : j <= i

SplitAt(s, i) == [left |-> SubSeq(s, 1, i - 1), right |-> SubSeq(s, i + 1, Len(s))]

\* str::split_once: split at the first occurrence of c
split_once(s, c) ==
    IF Positions(s, c) = {} THEN None ELSE Some(SplitAt(s, MinOf(Positions(s, c))))

\* str::rsplit_once: split at the last occurrence of c
rsplit_once(s, c) ==
    IF Positions(s, c) = {} THEN None ELSE Some(SplitAt(s, MaxOf(Positions(s, c))))

\* str::replace(from, to) for single characters
replace(s, from, to) == [i \in 1..Len(s) |-> IF s[i] = from THEN to ELSE s[i]]

(* ------------------------ lib.rs: ImageRef ----------------------------- *)

Tag(t) == [kind |-> "Tag", value |-> t]
Digest(d) == [kind |-> "Digest", value |-> d]
ImageRef(reg, repo, ver) == [registry |-> reg, repository |-> repo, version |-> ver]

Ok(v) == [ok |-> TRUE, value |-> v, err |-> ""]
Err(e) == [ok |-> FALSE, value |-> << >>, err |-> e]

ErrRegistry == "image registry must be provided"
ErrRepository == "image repository must be provided"
ErrTag == "image tag must be provided"
ErrDigest == "image digest must be provided"

\* lib.rs:66  let (registry, s) = s.split_once('/').unwrap_or(("docker.io", s))
RegistrySplit(s) ==
    IF IsSome(split_once(s, "/"))
    THEN [registry |-> Unwrap(split_once(s, "/")).left, rest |-> Unwrap(split_once(s, "/")).right]
    ELSE [registry |-> DockerIo, rest |-> s]

\* variant: the digest check on '@' comes before the tag check on ':'
ParseRest_DigestFirst(registry, s) ==
    IF IsSome(rsplit_once(s, "@"))
    THEN LET p == Unwrap(rsplit_once(s, "@")) IN
         IF p.left = << >> THEN Err(ErrRepository)
         ELSE IF p.right = << >> THEN Err(ErrDigest)
         ELSE Ok(ImageRef(registry, p.left, Digest(p.right)))
    ELSE IF IsSome(rsplit_once(s, ":"))
    THEN LET p == Unwrap(rsplit_once(s, ":")) IN
         IF p.left = << >> THEN Err(ErrRepository)
         ELSE IF p.right = << >> THEN Err(ErrTag)
         ELSE Ok(ImageRef(registry, p.left, Tag(p.right)))
    ELSE Ok(ImageRef(registry, s, Tag(Latest)))

\* lib.rs:69-91  the version part of the remainder
ParseRest(registry, s) ==
    IF IsSome(rsplit_once(s, ":"))
    THEN LET p == Unwrap(rsplit_once(s, ":")) IN
         IF p.left = << >> THEN Err(ErrRepository)
         ELSE IF p.right = << >> THEN Err(ErrTag)
         ELSE Ok(ImageRef(registry, p.left, Tag(p.right)))
    ELSE IF IsSome(rsplit_once(s, "@"))
    THEN LET p == Unwrap(rsplit_once(s, "@")) IN
         IF p.left = << >> THEN Err(ErrRepository)
         ELSE IF p.right = << >> THEN Err(ErrDigest)
         ELSE Ok(ImageRef(registry, p.left, Digest(p.right)))
    ELSE Ok(ImageRef(registry, s, Tag(Latest)))

\* lib.rs:65-92  <ImageRef as FromStr>::from_str
ImageRefFromStr(s) ==
    IF RegistrySplit(s).registry = << >> THEN Err(ErrRegistry)
    ELSE ParseRest(RegistrySplit(s).registry, RegistrySplit(s).rest)

\* lib.rs:110-116  <ImageRef as Display>::fmt
ImageRefFmt(image) ==
    IF image.version.kind = "Tag"
    THEN image.repository \o << ":" >> \o image.version.value
    ELSE image.repository \o << "@" >> \o image.version.value

(* --------------------- lib.rs: Authentication -------------------------- *)

AuthNone == [kind |-> "None", user |-> "", pass |-> ""]
AuthBasic(u, p) == [kind |-> "Basic", user |-> u, pass |-> p]

RegistryAnonymous == [kind |-> "Anonymous", user |-> "", pass |-> ""]
RegistryBasic(u, p) == [kind |-> "Basic", user |-> u, pass |-> p]

AuthenticationNew_SwappedFallback(username, password) ==
    IF ~IsSome(username) /\ ~IsSome(password) THEN AuthNone
    ELSE IF IsSome(username) /\ IsSome(password)
         THEN AuthBasic(Unwrap(username), Unwrap(password))
    ELSE IF IsSome(password) THEN AuthBasic(Unwrap(password), "")
    ELSE AuthBasic("", Unwrap(username))

\* lib.rs:195-202  Authentication::new
AuthenticationNew(username, password) ==
    IF ~IsSome(username) /\ ~IsSome(password) THEN AuthNone
    ELSE IF IsSome(username) /\ IsSome(password)
         THEN AuthBasic(Unwrap(username), Unwrap(password))
    ELSE IF IsSome(password) THEN AuthBasic("", Unwrap(password))
    ELSE AuthBasic(Unwrap(username), "")

\* lib.rs:206-211  From<&Authentication> for RegistryAuth
RegistryAuthFrom(a) ==
    IF a.kind = "None" THEN RegistryAnonymous ELSE RegistryBasic(a.user, a.pass)

(* ---------------------- lib.rs: OutputDir ------------------------------ *)

\* The file system: path |-> entry.  A directory entry holds its files,
\* file name |-> content (a sequence of bytes).
EmptyFiles == [n \in {} |-> << >>]
DirEntry(files) == [kind |-> "dir", files |-> files]
FileEntry == [kind |-> "file", files |-> EmptyFiles]

\* A path is its sequence of components; an absolute path starts with "/".
Cwd == << "/", "cwd" >>
\* the --output argument as typed: relative to the working directory
UserPath == << "out" >>
OutputTempPath == << "/", "tmp", "boxpop_" >>
WorkingPath == << "/", "tmp", "working" >>

\* std::fs::canonicalize of a path without links or dots: a relative path is
\* resolved against the current directory
Absolute(path) == IF path # << >> /\ path[1] = "/" THEN path ELSE Cwd \o path

OutputDirRec(temporary, path) == [is_temporary |-> temporary, path |-> path]

\* lib.rs:214-217  make_absolute: std::fs::canonicalize fails on a missing path
make_absolute(fs, path) ==
    IF Absolute(path) \in DOMAIN fs THEN Ok(Absolute(path))
    ELSE Err("canonicalize path using working directory")

\* variant: the is_file check is left out
OutputDirFromStr_NoFileCheck(fs, s) ==
    IF ~make_absolute(fs, s).ok THEN Err("output must not already exist, or must be a directory")
    ELSE Ok(OutputDirRec(FALSE, make_absolute(fs, s).value))

\* lib.rs:160-177  <OutputDir as FromStr>::from_str
OutputDirFromStr(fs, s) ==
    IF ~make_absolute(fs, s).ok THEN Err("output must not already exist, or must be a directory")
    ELSE IF fs[make_absolute(fs, s).value].kind = "file"
         THEN Err("output must not already exist, or must be a directory")
    ELSE Ok(OutputDirRec(FALSE, make_absolute(fs, s).value))

\* lib.rs:146-154  OutputDir::new_temporary, when the OS creates the directory
\* variant: the temporary directory is kept as a guard that removes it when
\* main returns
OutputDirNewTemporary_Guarded == OutputDirRec(TRUE, WorkingPath)

OutputDirNewTemporary == OutputDirRec(TRUE, OutputTempPath)

(* ------------------- the registry (external client) -------------------- *)

DigestA == << "h", ":", "a" >>
DigestB == << "h", ":", "b" >>
Digests == {DigestA, DigestB}

\* The bytes the registry serves for a digest, one byte per chunk.  The two
\* blobs share no byte and differ in length, so a write that lands in the
\* wrong file or at the wrong offset shows in the file's content.
BlobOf(d) ==
    IF d = DigestA THEN [j \in 1..MaxChunks |-> j]
    ELSE [j \in 1..(MaxChunks - 1) |-> MaxChunks + j]

RECURSIVE ManifestsOfLen(_)
ManifestsOfLen(n) ==
    IF n = 0 THEN { << >> }
    ELSE { Append(m, d) : m \in ManifestsOfLen(n - 1), d \in Digests }

Manifests == UNION { ManifestsOfLen(n) : n \in 0..MaxLayers }

(* ------------------------------ state ---------------------------------- *)

VARIABLES
    input,          \* command line: the image reference string
    username,       \* command line: Option<String>
    password,       \* command line: Option<String>
    outOpt,         \* command line: --output, Option<path>
    parsed,         \* Option<Result<ImageRef>>: ImageRef::from_str(input)
    shown,          \* Option<String>: image.to_string()
    reparsed,       \* Option<Result<ImageRef>>: from_str of the shown string
    auth,           \* Option<Authentication>
    ociauth,        \* Option<RegistryAuth>
    pc,             \* position of main
    result,         \* what main returned
    output,         \* Option<OutputDir>
    stdout,         \* lines printed to standard output
    disk,           \* the file system
    layers,         \* manifest.layers: the digests, in manifest order
    next,           \* the layer the for loop of extract::main is at
    tstate,         \* per layer: state of its download_layer task
    tpos,           \* per layer: chunks copied = offset of the task's file handle
    terr,           \* per layer: the context of the task's error
    hung,           \* per layer: the stream will never yield again
    completed,      \* tasks that finished, in completion order, not yet joined
    finishOrder,    \* every task that finished, in completion order
    bars,           \* per layer: Option<prefix of its progress bar>
    joined,         \* tasks whose result join_next has handed to main
    manifestCalls,  \* number of pull_image_manifest calls issued
    openCalls       \* per layer position: number of pull_blob_stream calls issued

cliVars == << input, username, password, outOpt >>
libVars == << parsed, shown, reparsed, auth, ociauth >>
taskVars == << tstate, tpos, terr, hung, completed, finishOrder, bars >>
runVars == << pc, result, output, stdout, disk, layers, next, joined, manifestCalls, openCalls >>
vars == << cliVars, libVars, taskVars, runVars >>

Layers == 1..MaxLayers
N == Len(layers)

NoResult == [status |-> "none", context |-> "", layer |-> 0]
Success == [status |-> "ok", context |-> "", layer |-> 0]
Failure(context, layer) == [status |-> "err", context |-> context, layer |-> layer]

Running == {"spawned", "copying", "flushing"}
Terminal == {"done", "failed"}

\* variant: every layer is written to one fixed file name
FileName_Fixed(d) == << "l", "a", "y", "e", "r" >>

\* extract.rs:130  layer.digest.replace(':', "_")
FileName(d) == replace(d, ":", "_")

\* the layer files of the working directory (none when it does not exist)
WorkingFiles ==
    IF WorkingPath \in DOMAIN disk THEN disk[WorkingPath].files ELSE EmptyFiles

Zeros(n) == [j \in 1..n |-> 0]

\* variant: every write lands at the end of the file, whatever the offset
WriteAt_Append(content, pos, byte) == Append(content, byte)

\* a write of one byte through a handle whose offset is pos
WriteAt(content, pos, byte) ==
    IF pos < Len(content) THEN [content EXCEPT ![pos + 1] = byte]
    ELSE content \o Zeros(pos - Len(content)) \o << byte >>

(* ------------------------- scope exit of main -------------------------- *)

\* variant: dropping the set detaches the tasks and leaves them running
AbortAll_Detach(ts) == ts

\* tokio JoinSet::drop: every task still in the set is aborted
AbortAll(ts) == [i \in DOMAIN ts |-> IF ts[i] \in Running THEN "aborted" ELSE ts[i]]

\* async_tempfile TempDir::drop: the directory and all it holds are removed
RemoveDir(fs, path) == [p \in DOMAIN fs \ {path} |-> fs[p]]

\* extract.rs:109,118,121  main returns while `tasks` and `working` are live:
\* both are dropped
Return(r) ==
    /\ result' = r
    /\ pc' = "done"
    /\ tstate' = AbortAll(tstate)
    /\ disk' = RemoveDir(disk, WorkingPath)

(* ------------------------------ Init ----------------------------------- *)

\* image references the run is started with: one that parses, one that does not
RunImages == { << "a", "/", "a" >>, << "a", ":" >> }

\* main.rs:24,28  --username requires --password and the reverse
RunCredentials == { << None, None >>, << Some("u"), Some("p") >> }

\* what the --output path names before the run
RunDisks ==
    { [p \in {} |-> FileEntry],
      Absolute(UserPath) :> FileEntry,
      Absolute(UserPath) :> DirEntry(EmptyFiles),
      Absolute(UserPath) :> DirEntry(<< "x" >> :> << 9 >>) }

InitCommon ==
    /\ parsed = None /\ shown = None /\ reparsed = None
    /\ auth = None /\ ociauth = None
    /\ result = NoResult
    /\ output = None
    /\ stdout = << >>
    /\ next = 1
    /\ tstate = [i \in Layers |-> "unspawned"]
    /\ tpos = [i \in Layers |-> 0]
    /\ terr = [i \in Layers |-> ""]
    /\ hung = [i \in Layers |-> FALSE]
    /\ completed = << >>
    /\ finishOrder = << >>
    /\ bars = [i \in Layers |-> None]
    /\ joined = {}
    /\ manifestCalls = 0
    /\ openCalls = [i \in Layers |-> 0]

Init ==
    /\ InitCommon
    /\ pc = "args"
    /\ input \in RunImages
    /\ \E c \in RunCredentials : username = c[1] /\ password = c[2]
    /\ \/ outOpt = None /\ disk = [p \in {} |-> FileEntry]
       \/ outOpt = Some(UserPath) /\ disk \in RunDisks
    /\ layers \in Manifests

(* ---------------------------- main.rs ---------------------------------- *)

\* main.rs:51  Application::parse(): clap runs ImageRef::from_str on the image
\* argument and OutputDir::from_str on --output; an error ends the process
ParseArgs ==
    /\ pc = "args"
    /\ parsed' = Some(ImageRefFromStr(input))
    /\ IF ~ImageRefFromStr(input).ok
       THEN /\ result' = Failure("parse image", 0)
            /\ pc' = "done"
            /\ UNCHANGED output
       ELSE IF IsSome(outOpt) /\ ~OutputDirFromStr(disk, Unwrap(outOpt)).ok
       THEN /\ result' = Failure("parse output", 0)
            /\ pc' = "done"
            /\ UNCHANGED output
       ELSE /\ output' = IF IsSome(outOpt)
                         THEN Some(OutputDirFromStr(disk, Unwrap(outOpt)).value)
                         ELSE None
            /\ pc' = "compute"
            /\ UNCHANGED result
    /\ UNCHANGED << cliVars, shown, reparsed, auth, ociauth, taskVars >>
    /\ UNCHANGED << stdout, disk, layers, next, joined, manifestCalls, openCalls >>

(* --------------------------- extract.rs -------------------------------- *)

\* extract.rs:46-56 and 71-79  Options::compute, then the references and the
\* "Resolving manifest for ..." line
Compute ==
    /\ pc = "compute"
    /\ \/ /\ IsSome(output)
          /\ stdout' = Append(stdout, Unwrap(output).path)
          /\ UNCHANGED << output, disk >>
          /\ pc' = "resolve"
       \/ /\ ~IsSome(output)
          /\ output' = Some(OutputDirNewTemporary)
          /\ disk' = (OutputDirNewTemporary.path :> DirEntry(EmptyFiles)) @@ disk
          /\ stdout' = Append(stdout, OutputDirNewTemporary.path)
          /\ pc' = "resolve"
    /\ auth' = Some(AuthenticationNew(username, password))
    /\ ociauth' = Some(RegistryAuthFrom(AuthenticationNew(username, password)))
    /\ shown' = Some(ImageRefFmt(Unwrap(parsed).value))
    /\ UNCHANGED << cliVars, parsed, reparsed, taskVars >>
    /\ UNCHANGED << result, layers, next, joined, manifestCalls, openCalls >>

\* extract.rs:46-50  OutputDir::new_temporary fails: compute()? returns
ComputeFail ==
    /\ pc = "compute"
    /\ ~IsSome(output)
    /\ result' = Failure("create temporary output dir", 0)
    /\ pc' = "done"
    /\ UNCHANGED << cliVars, libVars, taskVars >>
    /\ UNCHANGED << output, stdout, disk, layers, next, joined, manifestCalls, openCalls >>

\* variant: the error of pull_image_manifest is recorded but main goes on
ResolveManifest_Unchecked ==
    /\ pc = "resolve"
    /\ manifestCalls' = manifestCalls + 1
    /\ \/ pc' = "mktemp" /\ UNCHANGED result
       \/ pc' = "mktemp" /\ result' = Failure("resolve image manifest", 0)
    /\ UNCHANGED << cliVars, libVars, taskVars >>
    /\ UNCHANGED << output, stdout, disk, layers, next, joined, openCalls >>

\* extract.rs:80-87  client.pull_image_manifest(..).await
ResolveManifest ==
    /\ pc = "resolve"
    /\ manifestCalls' = manifestCalls + 1
    /\ \/ pc' = "mktemp" /\ UNCHANGED result
       \/ pc' = "done" /\ result' = Failure("resolve image manifest", 0)
    /\ UNCHANGED << cliVars, libVars, taskVars >>
    /\ UNCHANGED << output, stdout, disk, layers, next, joined, openCalls >>

\* extract.rs:89-101  TempDir::new().await, task_count, the "Pulling" line
CreateWorking ==
    /\ pc = "mktemp"
    /\ \/ /\ disk' = (WorkingPath :> DirEntry(EmptyFiles)) @@ disk
          /\ pc' = IF N = 0 THEN "join" ELSE "open"
          /\ UNCHANGED result
       \/ /\ result' = Failure("create temporary directory", 0)
          /\ pc' = "done"
          /\ UNCHANGED disk
    /\ UNCHANGED << cliVars, libVars, taskVars >>
    /\ UNCHANGED << output, stdout, layers, next, joined, manifestCalls, openCalls >>

\* variant: the layers are numbered from 0
TaskIndex_ZeroBased(pos) == pos - 1

\* extract.rs:105  zip(1..): the task index of the layer at position pos
TaskIndex(pos) == pos

\* extract.rs:96  task_count = layers.len() * 2
TaskCount == N * 2

\* extract.rs:168  bar.set_prefix(format!("[{task}/{task_count}]"))
download_progress(task, task_count) == [task |-> task, of |-> task_count]

\* variant: the call is issued and the loop goes on to the next layer without
\* awaiting it
OpenBlobStart_Eager ==
    /\ pc = "open"
    /\ openCalls' = [openCalls EXCEPT ![next] = @ + 1]
    /\ next' = next + 1
    /\ pc' = IF next = N THEN "join" ELSE "open"
    /\ UNCHANGED << cliVars, libVars, taskVars >>
    /\ UNCHANGED << result, output, stdout, disk, layers, joined, manifestCalls >>

\* extract.rs:105-108  the for loop reaches the next layer and issues
\* client.pull_blob_stream(..); main is suspended at the .await
OpenBlobStart ==
    /\ pc = "open"
    /\ openCalls' = [openCalls EXCEPT ![next] = @ + 1]
    /\ pc' = "opening"
    /\ UNCHANGED << cliVars, libVars, taskVars >>
    /\ UNCHANGED << result, output, stdout, disk, layers, next, joined, manifestCalls >>

\* extract.rs:106-114  pull_blob_stream(..).await succeeds: the progress bar
\* is made and the download_layer task is spawned
OpenBlob ==
    /\ pc = "opening"
    /\ bars' = [bars EXCEPT ![next] = Some(download_progress(TaskIndex(next), TaskCount))]
    /\ tstate' = [tstate EXCEPT ![next] = "spawned"]
    /\ next' = next + 1
    /\ pc' = IF next = N THEN "join" ELSE "open"
    /\ UNCHANGED << cliVars, libVars, tpos, terr, hung, completed, finishOrder >>
    /\ UNCHANGED << result, output, stdout, disk, layers, joined, manifestCalls, openCalls >>

\* variant: a failed pull_blob_stream is issued again for the same layer
OpenBlobFail_Retry ==
    /\ pc = "opening"
    /\ openCalls[next] < 2
    /\ openCalls' = [openCalls EXCEPT ![next] = @ + 1]
    /\ UNCHANGED << cliVars, libVars, taskVars >>
    /\ UNCHANGED << pc, result, output, stdout, disk, layers, next, joined, manifestCalls >>

\* extract.rs:106-109  pull_blob_stream(..).await fails: `?` returns
OpenBlobFail ==
    /\ pc = "opening"
    /\ Return(Failure("pull layer", next))
    /\ UNCHANGED << cliVars, libVars, tpos, terr, hung, completed, finishOrder, bars >>
    /\ UNCHANGED << output, stdout, layers, next, joined, manifestCalls, openCalls >>

\* variant: the join loop discards the task's result
JoinContinues_IgnoreError(i) == TRUE

\* extract.rs:118  `?` on the task's result: the loop goes on only after Ok
JoinContinues(i) == tstate[i] = "done"

\* variant: the loop ends as soon as no finished task is waiting
JoinSetEmpty_NothingFinished == completed = << >>

\* extract.rs:117  join_next yields None only when the JoinSet holds no task:
\* every spawned task has been handed over
JoinSetEmpty == joined = 1..N

\* extract.rs:117-119  tasks.join_next().await yields the next finished task
JoinNext ==
    /\ pc = "join"
    /\ completed # << >>
    /\ completed' = Tail(completed)
    /\ joined' = joined \cup {Head(completed)}
    /\ IF JoinContinues(Head(completed))
       THEN UNCHANGED << pc, result, tstate, disk >>
       ELSE Return(Failure("download blob", Head(completed)))
    /\ UNCHANGED << cliVars, libVars, tpos, terr, hung, finishOrder, bars >>
    /\ UNCHANGED << output, stdout, layers, next, manifestCalls, openCalls >>

\* extract.rs:117,121  join_next yields None: the loop ends, main returns Ok(())
JoinNone ==
    /\ pc = "join"
    /\ JoinSetEmpty
    /\ Return(Success)
    /\ UNCHANGED << cliVars, libVars, tpos, terr, hung, completed, finishOrder, bars >>
    /\ UNCHANGED << output, stdout, layers, next, joined, manifestCalls, openCalls >>

(* ----------------------- download_layer task --------------------------- *)

\* variant: the task finished last is handed to the join first
Finish_NewestFirst(i, st, e) ==
    /\ tstate' = [tstate EXCEPT ![i] = st]
    /\ terr' = [terr EXCEPT ![i] = e]
    /\ completed' = << i >> \o completed
    /\ finishOrder' = Append(finishOrder, i)

Finish(i, st, e) ==
    /\ tstate' = [tstate EXCEPT ![i] = st]
    /\ terr' = [terr EXCEPT ![i] = e]
    /\ completed' = Append(completed, i)
    /\ finishOrder' = Append(finishOrder, i)

Live(i) == i \in 1..N /\ pc # "done" /\ ~hung[i]

\* variant: the layer files are created in the output directory
LayerDir_Output == Unwrap(output).path

\* extract.rs:114  working.dir_path(): the directory download_layer writes to
LayerDir == WorkingPath

\* extract.rs:130-134  tokio::fs::File::create(&path): creates or truncates
TaskCreate(i) ==
    /\ Live(i) /\ tstate[i] = "spawned"
    /\ tstate' = [tstate EXCEPT ![i] = "copying"]
    /\ disk' = [disk EXCEPT ![LayerDir].files =
                    (FileName(layers[i]) :> << >>) @@ @]
    /\ UNCHANGED << cliVars, libVars, tpos, terr, hung, completed, finishOrder, bars >>
    /\ UNCHANGED << pc, result, output, stdout, layers, next, joined, manifestCalls, openCalls >>

\* extract.rs:132-134  File::create fails
TaskCreateFail(i) ==
    /\ Live(i) /\ tstate[i] = "spawned"
    /\ Finish(i, "failed", "create file")
    /\ UNCHANGED << cliVars, libVars, tpos, hung, bars, runVars >>

\* extract.rs:136-140  tokio::io::copy: one chunk read from the stream and
\* written to the file
TaskCopy(i) ==
    /\ Live(i) /\ tstate[i] = "copying"
    /\ tpos[i] < Len(BlobOf(layers[i]))
    /\ disk' = [disk EXCEPT ![LayerDir].files[FileName(layers[i])] =
                    WriteAt(@, tpos[i], BlobOf(layers[i])[tpos[i] + 1])]
    /\ tpos' = [tpos EXCEPT ![i] = @ + 1]
    /\ UNCHANGED << cliVars, libVars, tstate, terr, hung, completed, finishOrder, bars >>
    /\ UNCHANGED << pc, result, output, stdout, layers, next, joined, manifestCalls, openCalls >>

\* extract.rs:138  the stream ends: copy returns, the task goes on to flush
TaskCopyEnd(i) ==
    /\ Live(i) /\ tstate[i] = "copying"
    /\ tpos[i] = Len(BlobOf(layers[i]))
    /\ tstate' = [tstate EXCEPT ![i] = "flushing"]
    /\ UNCHANGED << cliVars, libVars, tpos, terr, hung, completed, finishOrder, bars, runVars >>

\* extract.rs:138-140  the stream yields an error or the write fails
TaskCopyFail(i) ==
    /\ Live(i) /\ tstate[i] = "copying"
    /\ Finish(i, "failed", "download blob")
    /\ UNCHANGED << cliVars, libVars, tpos, hung, bars, runVars >>

\* extract.rs:138  the stream neither yields nor ends nor fails, ever again
TaskHang(i) ==
    /\ Live(i) /\ tstate[i] = "copying"
    /\ hung' = [hung EXCEPT ![i] = TRUE]
    /\ UNCHANGED << cliVars, libVars, tstate, tpos, terr, completed, finishOrder, bars, runVars >>

\* variant: the task ends without its completion reaching the JoinSet
TaskFlush_Unnoticed(i) ==
    /\ Live(i) /\ tstate[i] = "flushing"
    /\ tstate' = [tstate EXCEPT ![i] = "done"]
    /\ bars' = [bars EXCEPT ![i] = None]
    /\ UNCHANGED << cliVars, libVars, tpos, terr, hung, completed, finishOrder, runVars >>

\* extract.rs:142-145  file.flush().await succeeds, progress.finish_and_clear()
\* takes the bar off the display, the task returns Ok(path)
TaskFlush(i) ==
    /\ Live(i) /\ tstate[i] = "flushing"
    /\ Finish(i, "done", "")
    /\ bars' = [bars EXCEPT ![i] = None]
    /\ UNCHANGED << cliVars, libVars, tpos, hung, runVars >>

\* extract.rs:142  file.flush().await fails
TaskFlushFail(i) ==
    /\ Live(i) /\ tstate[i] = "flushing"
    /\ Finish(i, "failed", "flush downloaded blob")
    /\ UNCHANGED << cliVars, libVars, tpos, hung, bars, runVars >>

Next ==
    \/ ParseArgs
    \/ Compute
    \/ ComputeFail
    \/ ResolveManifest
    \/ CreateWorking
    \/ OpenBlobStart
    \/ OpenBlob
    \/ OpenBlobFail
    \/ JoinNext
    \/ JoinNone
    \/ \E i \in Layers : TaskCreate(i)
    \/ \E i \in Layers : TaskCreateFail(i)
    \/ \E i \in Layers : TaskCopy(i)
    \/ \E i \in Layers : TaskCopyEnd(i)
    \/ \E i \in Layers : TaskCopyFail(i)
    \/ \E i \in Layers : TaskHang(i)
    \/ \E i \in Layers : TaskFlush(i)
    \/ \E i \in Layers : TaskFlushFail(i)

Spec == Init /\ [][Next]_vars

\* the tokio runtime keeps polling main and the spawned tasks: as long as
\* some step of the run can be taken, one is taken
FairSpec == Init /\ [][Next]_vars /\ WF_vars(Next)

(* ------------- lib.rs on its own: the functions applied to inputs ------ *)

LibCredentials == { None, Some(""), Some("u"), Some("p") }

LibInit ==
    /\ InitCommon
    /\ pc = "lib"
    /\ input \in Strings
    /\ username \in LibCredentials
    /\ password \in LibCredentials
    /\ outOpt = None
    /\ disk = [p \in {} |-> FileEntry]
    /\ layers = << >>

\* lib.rs:65-92  input.parse::<ImageRef>()
LibParse ==
    /\ pc = "lib" /\ parsed = None
    /\ parsed' = Some(ImageRefFromStr(input))
    /\ UNCHANGED << cliVars, shown, reparsed, auth, ociauth, taskVars, runVars >>

\* lib.rs:110-116  image.to_string()
LibFormat ==
    /\ pc = "lib" /\ IsSome(parsed) /\ Unwrap(parsed).ok /\ shown = None
    /\ shown' = Some(ImageRefFmt(Unwrap(parsed).value))
    /\ UNCHANGED << cliVars, parsed, reparsed, auth, ociauth, taskVars, runVars >>

\* lib.rs:65-92  image.to_string().parse::<ImageRef>()
LibReparse ==
    /\ pc = "lib" /\ IsSome(shown) /\ reparsed = None
    /\ reparsed' = Some(ImageRefFromStr(Unwrap(shown)))
    /\ UNCHANGED << cliVars, parsed, shown, auth, ociauth, taskVars, runVars >>

\* lib.rs:195-202  Authentication::new(username, password)
LibAuth ==
    /\ pc = "lib" /\ auth = None
    /\ auth' = Some(AuthenticationNew(username, password))
    /\ UNCHANGED << cliVars, parsed, shown, reparsed, ociauth, taskVars, runVars >>

\* lib.rs:206-211  RegistryAuth::from(&auth)
LibConvert ==
    /\ pc = "lib" /\ IsSome(auth) /\ ociauth = None
    /\ ociauth' = Some(RegistryAuthFrom(Unwrap(auth)))
    /\ UNCHANGED << cliVars, parsed, shown, reparsed, auth, taskVars, runVars >>

LibNext == LibParse \/ LibFormat \/ LibReparse \/ LibAuth \/ LibConvert

LibSpec == LibInit /\ [][LibNext]_vars

(* ======================= properties: the run =========================== *)

Spawned(i) == i \in 1..N /\ tstate[i] # "unspawned"
FailedTasks == { i \in 1..N : tstate[i] = "failed" }
ExactlyOneFailed == Cardinality(FailedTasks) = 1
DistinctDigests == \A i, j \in 1..N : j # i => layers[j] # layers[i]
\* no other layer's digest gives the file name that layer i's digest gives
UniqueName(i) ==
    \A j \in 1..N : j # i => replace(layers[j], ":", "_") # replace(layers[i], ":", "_")

\* layer i's file is in the working directory and holds the whole stream
FileComplete(i) ==
    /\ FileName(layers[i]) \in DOMAIN WorkingFiles
    /\ WorkingFiles[FileName(layers[i])] = BlobOf(layers[i])

PreexistingNames == { << "x" >> }

OutputFiles ==
    IF IsSome(output) /\ Unwrap(output).path \in DOMAIN disk
    THEN disk[Unwrap(output).path].files ELSE EmptyFiles

\* C3, as claimed: for pairwise distinct digests, a fetch that returned
\* success leaves in the output directory exactly one file per layer, named
\* by the digest with ':' replaced by '_', holding the bytes of its stream.
C3_OutputHoldsLayers ==
    (result.status = "ok" /\ DistinctDigests) =>
        /\ DOMAIN OutputFiles \ PreexistingNames = { replace(layers[i], ":", "_") : i \in 1..N }
        /\ \A i \in 1..N : OutputFiles[replace(layers[i], ":", "_")] = BlobOf(layers[i])

AnyFailure == result.status = "err" \/ FailedTasks # {}
RegistryCalls == << manifestCalls, openCalls >>

\* C10, as claimed: the manifest is resolved at most once, a stream is opened
\* at most once per layer position, and after any registry call or download
\* task has failed no further registry call is issued.
C10_NoCallAfterAnyFailure ==
    [][ /\ manifestCalls' <= 1
        /\ \A i \in Layers : openCalls'[i] <= 1
        /\ AnyFailure => RegistryCalls' = RegistryCalls ]_vars

\* C10, amended: the manifest is resolved at most once, a stream is opened at
\* most once per layer position, and after a registry call has failed, or the
\* join has observed a failed download task, no further registry call is
\* issued; a download task that fails while the streams are still being
\* opened does not stop the opens of the later layers.
C10_NoRetry ==
    [][ /\ manifestCalls' <= 1
        /\ \A i \in Layers : openCalls'[i] <= 1
        /\ result.status = "err" => RegistryCalls' = RegistryCalls
        /\ pc = "done" => RegistryCalls' = RegistryCalls ]_vars

C10_Witness ==
    /\ result = Failure("pull layer", 2)
    /\ tstate[1] = "failed"
    /\ manifestCalls = 1
    /\ openCalls[1] = 1 /\ openCalls[2] = 1

(* ===================== properties: lib.rs ============================== *)

\* registry, repository, tag and digest components without a separator
Names == { s \in Strings : s # << >> /\ \A i \in 1..Len(s) : s[i] = "a" }

\* the six forms: repo, registry/repo, repo:tag, registry/repo:tag,
\* repo@digest, registry/repo@digest
ValidForms ==
    Names
    \cup { g \o << "/" >> \o r : g \in Names, r \in Names }
    \cup { r \o << ":" >> \o v : r \in Names, v \in Names }
    \cup { r \o << "@" >> \o v : r \in Names, v \in Names }
    \cup { g \o << "/" >> \o r \o << ":" >> \o v : g \in Names, r \in Names, v \in Names }
    \cup { g \o << "/" >> \o r \o << "@" >> \o v : g \in Names, r \in Names, v \in Names }

\* the canonical string of a reference: registry, repository and version
Canonical(image) ==
    image.registry \o << "/" >> \o image.repository
        \o (IF image.version.kind = "Tag" THEN << ":" >> ELSE << "@" >>)
        \o image.version.value

\* C4, as claimed: a valid input parses; formatting the reference gives its
\* canonical string with the registry and the version; parsing that string
\* again gives a reference equal to the first.
C4_RoundTrip ==
    (input \in ValidForms /\ IsSome(reparsed)) =>
        /\ Unwrap(parsed).ok
        /\ Unwrap(shown) = Canonical(Unwrap(parsed).value)
        /\ Unwrap(reparsed) = Unwrap(parsed)

\* C5, as claimed: "", "/", "repo:", "repo@" and ":tag" are each rejected,
\* with the error naming the missing component.
C5_RejectedInputs ==
    IsSome(parsed) =>
        /\ input = << >> => ~Unwrap(parsed).ok
        /\ input = << "/" >> => Unwrap(parsed) = Err(ErrRegistry)
        /\ input = << "a", ":" >> => Unwrap(parsed) = Err(ErrTag)
        /\ input = << "a", "@" >> => Unwrap(parsed) = Err(ErrDigest)
        /\ input = << ":", "a" >> => Unwrap(parsed) = Err(ErrRepository)
        /\ Cardinality({ErrRegistry, ErrRepository, ErrTag, ErrDigest}) = 4

\* C6, as claimed: every reference that parsing returns has a non-empty
\* registry, a non-empty repository and a Tag or Digest with a non-empty
\* value.
C6_ParsedNonEmpty ==
    (IsSome(parsed) /\ Unwrap(parsed).ok) =>
        /\ Unwrap(parsed).value.registry # << >>
        /\ Unwrap(parsed).value.repository # << >>
        /\ Unwrap(parsed).value.version.kind \in {"Tag", "Digest"}
        /\ Unwrap(parsed).value.version.value # << >>

\* C9: Authentication::new never fails and gives None for (absent, absent),
\* Basic(u, p) for (u, p), Basic(u, "") for (u, absent), Basic("", p) for
\* (absent, p); None becomes Anonymous and Basic(u, p) becomes Basic(u, p).
C9_AuthSelection ==
    /\ IsSome(auth) =>
          /\ Unwrap(auth).kind \in {"None", "Basic"}
          /\ (username = None /\ password = None) =>
                Unwrap(auth) = [kind |-> "None", user |-> "", pass |-> ""]
          /\ (username # None /\ password # None) =>
                Unwrap(auth) = [kind |-> "Basic", user |-> username[1], pass |-> password[1]]
          /\ (username # None /\ password = None) =>
                Unwrap(auth) = [kind |-> "Basic", user |-> username[1], pass |-> ""]
          /\ (username = None /\ password # None) =>
                Unwrap(auth) = [kind |-> "Basic", user |-> "", pass |-> password[1]]
    /\ IsSome(ociauth) =>
          /\ Unwrap(auth).kind = "None" => Unwrap(ociauth).kind = "Anonymous"
          /\ Unwrap(auth).kind = "Basic" =>
                /\ Unwrap(ociauth).kind = "Basic"
                /\ Unwrap(ociauth).user = Unwrap(auth).user
                /\ Unwrap(ociauth).pass = Unwrap(auth).pass

C9_Witness ==
    /\ pc = "lib"
    /\ username = Some("u") /\ password = None
    /\ IsSome(ociauth)
    /\ Unwrap(ociauth) = [kind |-> "Basic", user |-> "u", pass |-> ""]

(* ================= properties: output directory ======================= *)

\* the canonical path of the --output argument
UserTarget == Cwd \o Unwrap(outOpt)

\* C11: resolving an --output path that is a regular file fails and leaves
\* the file system as it was; resolving one that is a directory, empty or
\* not, changes nothing either and gives OutputDir { is_temporary: false }
\* with the canonical absolute path.
C11_OutputResolution ==
    [][ (pc = "args" /\ pc' # "args" /\ IsSome(outOpt) /\ UserTarget \in DOMAIN disk) =>
            /\ disk' = disk
            /\ disk[UserTarget].kind = "file" =>
                  (pc' = "done" /\ result'.status = "err" /\ output' = None)
            /\ (disk[UserTarget].kind = "dir" /\ Unwrap(parsed').ok) =>
                  /\ result'.status = "none"
                  /\ output' = Some([is_temporary |-> FALSE, path |-> UserTarget]) ]_vars

C11_Witness ==
    /\ IsSome(outOpt)
    /\ UserTarget \in DOMAIN disk
    /\ disk[UserTarget].kind = "file"
    /\ result = Failure("parse output", 0)

\* C12: without --output the run creates a fresh temporary output directory
\* with is_temporary = true and prints its path before the manifest is
\* requested; from then on no step of the run, failing or not, removes the
\* directory or changes the resolved output.
C12_TemporaryOutputPersists ==
    [][ outOpt = None =>
            /\ (~IsSome(output) /\ IsSome(output')) =>
                  /\ Unwrap(output').is_temporary
                  /\ Unwrap(output').path \notin DOMAIN disk
                  /\ Unwrap(output').path \in DOMAIN disk'
                  /\ stdout' = << Unwrap(output').path >>
                  /\ manifestCalls' = 0
            /\ IsSome(output) =>
                  /\ output' = output
                  /\ Unwrap(output).path \in DOMAIN disk'
                  /\ disk'[Unwrap(output).path].kind = "dir"
            /\ manifestCalls' > manifestCalls => IsSome(output) ]_vars

C12_Witness ==
    /\ outOpt = None
    /\ pc = "done"
    /\ result.status = "err" /\ result.context = "download blob"
    /\ IsSome(output) /\ Unwrap(output).is_temporary
    /\ Unwrap(output).path \in DOMAIN disk
    /\ WorkingPath \notin DOMAIN disk

(* ================= properties: opening the streams ==================== *)

\* the pull_blob_stream calls that were issued and have not returned
OpenInFlight ==
    { i \in 1..N : /\ openCalls[i] > 0
                   /\ tstate[i] = "unspawned"
                   /\ result # Failure("pull layer", i) }

\* C13: the streams are opened one after the other in manifest order: at most
\* one pull_blob_stream call is in flight, and the call for a layer is issued
\* only after the call for every earlier layer has succeeded and its task has
\* been spawned; the tasks of earlier layers may be anywhere in their work.
C13_SequentialOpens ==
    /\ Cardinality(OpenInFlight) <= 1
    /\ \A i \in 1..N : openCalls[i] > 0 =>
          \A j \in 1..(i - 1) : openCalls[j] = 1 /\ tstate[j] # "unspawned"
    /\ \A i \in 1..N : tstate[i] # "unspawned" => openCalls[i] = 1

\* the open of layer 2 is in flight while the task of layer 1 is copying
C13_Witness ==
    /\ OpenInFlight = {2}
    /\ tstate[1] = "copying" /\ tpos[1] > 0

(* ================= properties: early failures ========================= *)

\* nothing of the download has happened: no stream opened, no task spawned,
\* no working directory, no layer file
NothingDownloaded ==
    /\ \A i \in Layers : openCalls[i] = 0 /\ tstate[i] = "unspawned" /\ tpos[i] = 0
    /\ WorkingPath \notin DOMAIN disk
    /\ \A p \in DOMAIN disk : \A i \in 1..N : FileName(layers[i]) \notin DOMAIN disk[p].files

\* C14: when pull_image_manifest fails, the run ends with that error and no
\* stream has been opened, no task spawned, no working directory and no layer
\* file created; and when the image reference does not parse, the run ends
\* with the parse error before any call to the registry.
C14_EarlyFailure ==
    /\ result.context = "resolve image manifest" =>
          /\ pc = "done" /\ result.status = "err"
          /\ manifestCalls = 1
          /\ NothingDownloaded
    /\ (IsSome(parsed) /\ ~Unwrap(parsed).ok) =>
          /\ pc = "done" /\ result = Failure("parse image", 0)
          /\ manifestCalls = 0
          /\ NothingDownloaded

C14_Witness ==
    /\ result = Failure("resolve image manifest", 0)
    /\ N = 2
    /\ manifestCalls = 1

(* ================= properties: the error returned ===================== *)

\* the positions in finishOrder of the tasks that failed
FailedPositions == { k \in DOMAIN finishOrder : tstate[finishOrder[k]] = "failed" }

\* the task that failed first, in the order the tasks finished
FirstFailed == finishOrder[MinOf(FailedPositions)]

\* C15, as claimed: when one or more spawned tasks have failed, the error the
\* fetch returns is the error of the first failed task in completion order.
C15_TaskErrorReturned ==
    (pc = "done" /\ FailedTasks # {}) =>
        result = Failure("download blob", FirstFailed)

\* C15, amended: an error the fetch returns from the join loop is the error of
\* a task that failed, the first failed one in completion order; when tasks
\* have failed and the fetch returns another error, that error is the failure
\* of pull_blob_stream for a later layer, whose task was never spawned.
C15_FirstObservedFailure ==
    /\ (pc = "done" /\ result.context = "download blob") =>
          /\ result.status = "err"
          /\ result.layer \in FailedTasks
          /\ result.layer = FirstFailed
          /\ terr[result.layer] # ""
    /\ (pc = "done" /\ FailedTasks # {} /\ result.context # "download blob") =>
          /\ result.status = "err" /\ result.context = "pull layer"
          /\ tstate[result.layer] = "unspawned"
          /\ \A i \in FailedTasks : i < result.layer

\* the fetch returned the failure of task 2 although task 1 failed as well
C15_Witness ==
    /\ pc = "done"
    /\ result = Failure("download blob", 2)
    /\ FailedTasks = {1, 2}
    /\ finishOrder = << 2, 1 >>

(* ================= properties: tag before digest ====================== *)

\* lib.rs:65-69  the part of the input after the registry split, by position
Remainder(s) ==
    IF "/" \in { s[k] : k \in DOMAIN s }
    THEN SubSeq(s, MinOf({ k \in DOMAIN s : s[k] = "/" }) + 1, Len(s))
    ELSE s

Has(s, c) == \E k \in DOMAIN s : s[k] = c
LastOf(s, c) == MaxOf({ k \in DOMAIN s : s[k] = c })

Labelled == { i \in Layers : IsSome(bars[i]) }

\* C17: the bar of the i-th layer of an N-layer manifest is labelled with
\* index i out of 2*N; the indices of the bars are pairwise distinct, at
\* least 1 and at most N, so none lies in N+1..2*N.
C17_ProgressLabels ==
    /\ \A i \in Labelled :
          /\ i \in 1..N
          /\ Unwrap(bars[i]).task = i
          /\ Unwrap(bars[i]).of = 2 * N
          /\ Unwrap(bars[i]).task \in 1..N
          /\ Unwrap(bars[i]).task \notin (N + 1)..(2 * N)
    /\ \A i, j \in Labelled : i # j => Unwrap(bars[i]).task # Unwrap(bars[j]).task
    /\ \A i \in 1..N : (tstate[i] \in Running \/ tstate[i] = "failed") => i \in Labelled

\* both bars of a two-layer manifest are on display: [1/4] and [2/4]
C17_Witness ==
    /\ N = 2
    /\ bars[1] = Some([task |-> 1, of |-> 4])
    /\ bars[2] = Some([task |-> 2, of |-> 4])

(* ================= properties: layers with one digest ================= *)

\* the layers that share layer i's digest, layer i included
SameDigest(i) == { j \in 1..N : layers[j] = layers[i] }

\* the task has created its file and not failed since
HoldsFile(i) == tstate[i] \in {"copying", "flushing"}

\* C18: layers with the same digest are not deduplicated: each has its stream
\* opened and its task spawned, each task creates and writes the one file the
\* digest names, and once all of them have completed the file holds exactly
\* the bytes of the stream, however their creates and writes interleaved.
C18_SameDigestRace ==
    /\ pc = "join" =>
          \A i \in 1..N : openCalls[i] = 1 /\ tstate[i] # "unspawned"
    /\ \A i \in 1..N :
          (HoldsFile(i) /\ WorkingPath \in DOMAIN disk) =>
              FileName(layers[i]) \in DOMAIN WorkingFiles
    /\ \A i \in 1..N :
          (/\ Cardinality(SameDigest(i)) > 1
           /\ \A j \in SameDigest(i) : tstate[j] = "done"
           /\ WorkingPath \in DOMAIN disk) =>
              /\ FileName(layers[i]) \in DOMAIN WorkingFiles
              /\ WorkingFiles[FileName(layers[i])] = BlobOf(layers[i])

\* both tasks hold the file open; task 2 truncated it under task 1, whose
\* next write left a hole
C18_Witness ==
    /\ N = 2 /\ layers[1] = DigestA /\ layers[2] = DigestA
    /\ HoldsFile(1) /\ HoldsFile(2)
    /\ tpos[1] = 2 /\ tpos[2] = 0
    /\ WorkingFiles[FileName(DigestA)] = << 0, 2 >>

(* ================= properties: the output directory is left alone ===== *)

SomeStreamHung == \E i \in Layers : hung[i]

\* the whole download went through
AllDownloaded ==
    /\ IsSome(parsed) /\ Unwrap(parsed).ok
    /\ IsSome(output)
    /\ manifestCalls = 1
    /\ \A i \in 1..N :
          /\ openCalls[i] = 1
          /\ tstate[i] = "done"
          /\ tpos[i] = Len(BlobOf(layers[i]))
          /\ terr[i] = ""
          /\ i \in joined

\* C20: under fair scheduling the run terminates unless an opened stream
\* never ends nor fails; it ends in success only when the manifest was
\* resolved, every stream opened, and every task created its file, copied
\* its whole stream and flushed, and it ends in failure in every other case.
C20_Termination ==
    /\ <>(pc = "done" \/ SomeStreamHung)
    /\ [](pc = "done" =>
            /\ result.status \in {"ok", "err"}
            /\ result.status = "ok" => AllDownloaded
            /\ ~AllDownloaded => result.status = "err")

C20_Witness ==
    /\ pc = "done"
    /\ result = Success
    /\ N = 2
    /\ AllDownloaded

====
